---- MODULE Spec2Model ----
(***************************************************************************)
(* Redux book application: the slice reducers authorsReducer and           *)
(* booksReducer, the root reducer built from them by combineReducers, the   *)
(* single monolithic reducer they replace, and the two input forms that     *)
(* dispatch to the store.                                                   *)
(*                                                                          *)
(* A JavaScript array is a sequence, an object a record.  `undefined` is    *)
(* the record with no fields when it stands for a whole store state, and    *)
(* the empty set when it stands for a reducer argument: a reducer argument  *)
(* is {} (undefined) or {s} (the value s).                                  *)
(***************************************************************************)
EXTENDS Integers, Sequences, FiniteSets, TLC

VARIABLES
    state,       \* state held by the store created from rootReducer
    mono,        \* state held by the store of the monolithic reducer
    app,         \* state held by the store of the single-reducer bookApp
    uuidCount,   \* number of ids the uuid generator has handed out
    lastAction,  \* the action most recently dispatched to the stores
    prev         \* state of the store lastAction went to, before it went

vars == <<state, mono, app, uuidCount, lastAction, prev>>

\* ---- bounds ----
MaxRecords == 3  \* most records the two arrays hold together
MaxUuid == 3     \* number of uuid() calls explored

\* ---- input universe ----
Names == {"Mark Twain", "Neal Stephenson"}
Titles == {"Snow Crash"}
LiteralIds == {0}                       \* ids written by hand in an action
InitTypes == {"@@redux/INIT1.a", "@@redux/INIT7.q"}  \* the store's first action
OtherTypes == {"ADD_BOOK"}            \* types no slice reducer handles
AppIds == {0, 1}                        \* ids carried by the actions of bookApp

\* ---- values ----
Undefined == [k \in {} |-> <<>>]
IsUndefined(s) == DOMAIN s = {}

\* value of a parameter `p = dflt` when the argument is arg
OrDefault(arg, dflt) == IF arg = {} THEN dflt ELSE CHOOSE s \in arg : TRUE

\* state.find((author) => author.authorName === authorName), as the set
\* holding the first match (empty: undefined).  state.filter is SelectSeq.
FindAuthor(seq, authorName) ==
    LET hits == {i \in DOMAIN seq : seq[i].authorName = authorName}
    IN  IF hits = {} THEN {}
        ELSE {seq[CHOOSE i \in hits : \A j \in hits : i <= j]}

\* uuid(): the n-th call returns an id no earlier call returned
uuid(n) == n + 1

\* ---- action creators ----
addAuthor(author) == [type |-> "authors/add", payload |-> author]
removeAuthor(id) == [type |-> "authors/remove", payload |-> id]
addBook(book) == [type |-> "books/add", payload |-> book]
removeBook(id) == [type |-> "books/remove", payload |-> id]

\* ---- reducers ----
authorsInitialStateSeeded == <<[authorName |-> "Mark Twain", id |-> 0]>>
authorsInitialState == <<>>
booksInitialState == <<>>
monoInitialState == [authors |-> <<>>, books |-> <<>>]

\* does authorsReducer call uuid() for this argument and action
authorsCallsUuid(arg, action) ==
    LET s == OrDefault(arg, authorsInitialState)
    IN  /\ action.type = "books/add"
        /\ FindAuthor(s, action.payload.authorName) = {}

\* authorsReducer without the lookup of an existing author on books/add
authorsReducerAlwaysAdds(arg, action, n) ==
    LET s == OrDefault(arg, authorsInitialState)
    IN  CASE action.type = "authors/add" ->
                 Append(s, action.payload)
          [] action.type = "authors/remove" ->
                 SelectSeq(s, LAMBDA author : author.id # action.payload)
          [] action.type = "books/add" ->
                 Append(s, [authorName |-> action.payload.authorName,
                            id |-> uuid(n)])
          [] OTHER -> s

\* authorsReducer giving the new author the id of the book
authorsReducerReusesBookId(arg, action, n) ==
    LET s == OrDefault(arg, authorsInitialState)
    IN  CASE action.type = "authors/add" ->
                 Append(s, action.payload)
          [] action.type = "authors/remove" ->
                 SelectSeq(s, LAMBDA author : author.id # action.payload)
          [] action.type = "books/add" ->
                 LET existingAuthor ==
                         FindAuthor(s, action.payload.authorName)
                 IN  IF existingAuthor # {} THEN s
                     ELSE Append(s, [authorName |-> action.payload.authorName,
                                     id |-> action.payload.id])
          [] OTHER -> s

\* authorsReducer looking the author up by the title of the book
authorsReducerLooksUpTitle(arg, action, n) ==
    LET s == OrDefault(arg, authorsInitialState)
    IN  CASE action.type = "authors/add" ->
                 Append(s, action.payload)
          [] action.type = "authors/remove" ->
                 SelectSeq(s, LAMBDA author : author.id # action.payload)
          [] action.type = "books/add" ->
                 LET existingAuthor == FindAuthor(s, action.payload.title)
                 IN  IF existingAuthor # {} THEN s
                     ELSE Append(s, [authorName |-> action.payload.authorName,
                                     id |-> uuid(n)])
          [] OTHER -> s

\* authorsReducer applying the name lookup of books/add to authors/add too
authorsReducerChecksNameOnAdd(arg, action, n) ==
    LET s == OrDefault(arg, authorsInitialState)
    IN  CASE action.type = "authors/add" ->
                 IF FindAuthor(s, action.payload.authorName) # {} THEN s
                 ELSE Append(s, action.payload)
          [] action.type = "authors/remove" ->
                 SelectSeq(s, LAMBDA author : author.id # action.payload)
          [] action.type = "books/add" ->
                 LET existingAuthor ==
                         FindAuthor(s, action.payload.authorName)
                 IN  IF existingAuthor # {} THEN s
                     ELSE Append(s, [authorName |-> action.payload.authorName,
                                     id |-> uuid(n)])
          [] OTHER -> s

\* authorsReducer removing one author, the first with the id, on authors/remove
authorsReducerRemovesFirst(arg, action, n) ==
    LET s    == OrDefault(arg, authorsInitialState)
        hits == IF action.type = "authors/remove"
                THEN {i \in DOMAIN s : s[i].id = action.payload} ELSE {}
    IN  CASE action.type = "authors/add" ->
                 Append(s, action.payload)
          [] action.type = "authors/remove" ->
                 IF hits = {} THEN s
                 ELSE LET idx == CHOOSE i \in hits : \A j \in hits : i <= j
                      IN  SubSeq(s, 1, idx - 1) \o SubSeq(s, idx + 1, Len(s))
          [] action.type = "books/add" ->
                 LET existingAuthor ==
                         FindAuthor(s, action.payload.authorName)
                 IN  IF existingAuthor # {} THEN s
                     ELSE Append(s, [authorName |-> action.payload.authorName,
                                     id |-> uuid(n)])
          [] OTHER -> s

\* authorsReducer(state, action); n is the number of uuid() calls made so far
authorsReducer(arg, action, n) ==
    LET s == OrDefault(arg, authorsInitialState)
    IN  CASE action.type = "authors/add" ->
                 Append(s, action.payload)
          [] action.type = "authors/remove" ->
                 SelectSeq(s, LAMBDA author : author.id # action.payload)
          [] action.type = "books/add" ->
                 LET existingAuthor ==
                         FindAuthor(s, action.payload.authorName)
                 IN  IF existingAuthor # {} THEN s
                     ELSE Append(s, [authorName |-> action.payload.authorName,
                                     id |-> uuid(n)])
          [] OTHER -> s

\* seq without its first record of the given id (seq itself when there is none)
RemoveFirst(seq, id) ==
    LET hits == {i \in DOMAIN seq : seq[i].id = id}
    IN  IF hits = {} THEN seq
        ELSE LET idx == CHOOSE i \in hits : \A j \in hits : i <= j
             IN  SubSeq(seq, 1, idx - 1) \o SubSeq(seq, idx + 1, Len(seq))

\* booksReducer removing one book, the first with the id, on books/remove
booksReducerRemovesFirst(arg, action) ==
    LET s == OrDefault(arg, booksInitialState)
    IN  CASE action.type = "books/add" ->
                 Append(s, action.payload)
          [] action.type = "books/remove" ->
                 RemoveFirst(s, action.payload)
          [] OTHER -> s

\* booksReducer refusing a book whose id the collection already has
booksReducerSkipsKnownId(arg, action) ==
    LET s == OrDefault(arg, booksInitialState)
    IN  CASE action.type = "books/add" ->
                 IF \E i \in DOMAIN s : s[i].id = action.payload.id THEN s
                 ELSE Append(s, action.payload)
          [] action.type = "books/remove" ->
                 SelectSeq(s, LAMBDA book : book.id # action.payload)
          [] OTHER -> s

\* booksReducer returning its initial state for an action it does not handle
booksReducerResetsOnUnknown(arg, action) ==
    LET s == OrDefault(arg, booksInitialState)
    IN  CASE action.type = "books/add" ->
                 Append(s, action.payload)
          [] action.type = "books/remove" ->
                 SelectSeq(s, LAMBDA book : book.id # action.payload)
          [] OTHER -> booksInitialState

\* booksReducer whose filter keeps the matching books instead of the others
booksReducerKeepsMatch(arg, action) ==
    LET s == OrDefault(arg, booksInitialState)
    IN  CASE action.type = "books/add" ->
                 Append(s, action.payload)
          [] action.type = "books/remove" ->
                 SelectSeq(s, LAMBDA book : book.id = action.payload)
          [] OTHER -> s

\* booksReducer that also filters on authors/remove
booksReducerOnAuthorsRemove(arg, action) ==
    LET s == OrDefault(arg, booksInitialState)
    IN  CASE action.type = "books/add" ->
                 Append(s, action.payload)
          [] action.type \in {"books/remove", "authors/remove"} ->
                 SelectSeq(s, LAMBDA book : book.id # action.payload)
          [] OTHER -> s

booksReducer(arg, action) ==
    LET s == OrDefault(arg, booksInitialState)
    IN  CASE action.type = "books/add" ->
                 Append(s, action.payload)
          [] action.type = "books/remove" ->
                 SelectSeq(s, LAMBDA book : book.id # action.payload)
          [] OTHER -> s

\* state[key] of the combined state: undefined when the key is absent
Slice(s, key) == IF key \in DOMAIN s THEN {s[key]} ELSE {}

\* the root reducer with the two slices handed to the wrong reducers
rootReducerSwappedSlices(s, action, n) ==
    [authors |-> authorsReducer(Slice(s, "books"), action, n),
     books   |-> booksReducer(Slice(s, "authors"), action)]

\* combineReducers({ authors: authorsReducer, books: booksReducer }): every
\* slice reducer gets its slice of the state (undefined when the state is)
\* and the action, and the results make up the new state
rootReducer(s, action, n) ==
    [authors |-> authorsReducer(Slice(s, "authors"), action, n),
     books   |-> booksReducer(Slice(s, "books"), action)]

\* the single reducer with an authors/remove case that keeps the match
reducerKeepsAuthorMatch(arg, action) ==
    LET s == IF IsUndefined(arg) THEN monoInitialState ELSE arg
    IN  CASE action.type = "books/add" ->
                 [s EXCEPT !.books = Append(s.books, action.payload)]
          [] action.type = "books/remove" ->
                 LET newBooks ==
                         SelectSeq(s.books, LAMBDA book : book.id # action.payload)
                 IN  [s EXCEPT !.books = newBooks]
          [] action.type = "authors/add" ->
                 [s EXCEPT !.authors = Append(s.authors, action.payload)]
          [] action.type = "authors/remove" ->
                 LET newAuthors ==
                         SelectSeq(s.authors,
                                LAMBDA author : author.id = action.payload)
                 IN  [s EXCEPT !.authors = newAuthors]
          [] OTHER -> s

\* the single reducer managing both resources
reducer(arg, action) ==
    LET s == IF IsUndefined(arg) THEN monoInitialState ELSE arg
    IN  CASE action.type = "books/add" ->
                 [s EXCEPT !.books = Append(s.books, action.payload)]
          [] action.type = "books/remove" ->
                 LET newBooks ==
                         SelectSeq(s.books, LAMBDA book : book.id # action.payload)
                 IN  [s EXCEPT !.books = newBooks]
          [] action.type = "authors/add" ->
                 [s EXCEPT !.authors = Append(s.authors, action.payload)]
          [] action.type = "authors/remove" ->
                 LET newAuthors ==
                         SelectSeq(s.authors,
                                LAMBDA author : author.id # action.payload)
                 IN  [s EXCEPT !.authors = newAuthors]
          [] OTHER -> s

\* ---- the single-reducer bookApp ----
bookAppInitialState == [authors |-> <<>>, books |-> <<>>]

\* seq.findIndex((record) => record.id === id): 0-based, -1 when none matches
FindIndex(seq, id) ==
    LET hits == {i \in DOMAIN seq : seq[i].id = id}
    IN  IF hits = {} THEN -1
        ELSE (CHOOSE i \in hits : \A j \in hits : i <= j) - 1

\* an index argument of Array.prototype.slice: a negative one counts from the
\* end, and the result stays within 0..len
SliceIndex(k, len) ==
    IF k < 0 THEN (IF len + k < 0 THEN 0 ELSE len + k)
    ELSE IF k > len THEN len ELSE k

\* seq.slice(from, to), 0-based, to excluded
JsSlice(seq, from, to) ==
    SubSeq(seq, SliceIndex(from, Len(seq)) + 1, SliceIndex(to, Len(seq)))

\* [...seq.slice(0, idx), ...seq.slice(idx + 1)]
WithoutIndex(seq, idx) ==
    JsSlice(seq, 0, idx) \o JsSlice(seq, idx + 1, Len(seq))

bookApp(arg, action) ==
    LET s == IF IsUndefined(arg) THEN bookAppInitialState ELSE arg
    IN  CASE action.type = "ADD_BOOK" ->
                 [s EXCEPT !.books = Append(s.books, action.book)]
          [] action.type = "REMOVE_BOOK" ->
                 LET idx == FindIndex(s.books, action.id)
                 IN  [s EXCEPT !.books = WithoutIndex(s.books, idx)]
          [] action.type = "ADD_AUTHOR" ->
                 [s EXCEPT !.authors = Append(s.authors, action.author)]
          [] action.type = "REMOVE_AUTHOR" ->
                 LET idx == FindIndex(s.authors, action.id)
                 IN  [s EXCEPT !.authors = WithoutIndex(s.authors, idx)]
          [] OTHER -> s

\* ---- the store ----
Ids(seq) == {seq[i].id : i \in DOMAIN seq}

\* ids an action written by hand can carry: literals and ids read off the store
KnownIds(s) == LiteralIds \cup Ids(s.books) \cup Ids(s.authors)

WithinBounds(s) == Len(s.authors) + Len(s.books) <= MaxRecords

\* store.dispatch(action), after used calls of uuid() by the dispatching code;
\* with sideBySide a store built from the monolithic reducer gets the action too
dispatch(action, used, sideBySide) ==
    LET n    == uuidCount + used
        more == IF authorsCallsUuid(Slice(state, "authors"), action)
                THEN 1 ELSE 0
    IN  /\ n + more <= MaxUuid
        /\ WithinBounds(rootReducer(state, action, n))
        /\ state' = rootReducer(state, action, n)
        /\ mono' = IF sideBySide THEN reducer(mono, action) ELSE mono
        /\ app' = app
        /\ uuidCount' = n + more
        /\ lastAction' = action
        /\ prev' = state

Init ==
    /\ state = Undefined
    /\ mono = Undefined
    /\ app = Undefined
    /\ uuidCount = 0
    /\ lastAction = [type |-> "none"]
    /\ prev = Undefined

\* createStore(rootReducer): the store dispatches its initialization action
CreateStore(sideBySide) ==
    /\ IsUndefined(state)
    /\ \E t \in InitTypes : dispatch([type |-> t], 0, sideBySide)

\* BookInput.handleSubmit giving every book the same id instead of a uuid
BookInputSubmitFixedId(sideBySide) ==
    /\ ~IsUndefined(state)
    /\ \E title \in Titles, authorName \in Names :
         LET book == [title |-> title, authorName |-> authorName, id |-> 0]
         IN  dispatch(addBook(book), 0, sideBySide)

\* BookInput.handleSubmit
BookInputSubmit(sideBySide) ==
    /\ ~IsUndefined(state)
    /\ \E title \in Titles, authorName \in Names :
         LET book == [title |-> title, authorName |-> authorName,
                      id |-> uuid(uuidCount)]
         IN  dispatch(addBook(book), 1, sideBySide)

\* AuthorInput.handleSubmit
AuthorInputSubmit(sideBySide) ==
    /\ ~IsUndefined(state)
    /\ \E authorName \in Names :
         LET author == [authorName |-> authorName, id |-> uuid(uuidCount)]
         IN  dispatch(addAuthor(author), 1, sideBySide)

\* store.dispatch of an action built by hand; an added record has a literal
\* id or repeats the id of a record of its collection
DispatchAddBook(sideBySide) ==
    /\ ~IsUndefined(state)
    /\ \E title \in Titles, authorName \in Names,
          id \in LiteralIds \cup Ids(state.books) :
         dispatch(addBook([title |-> title, authorName |-> authorName,
                           id |-> id]), 0, sideBySide)

DispatchAddAuthor(sideBySide) ==
    /\ ~IsUndefined(state)
    /\ \E authorName \in Names, id \in LiteralIds \cup Ids(state.authors) :
         dispatch(addAuthor([authorName |-> authorName, id |-> id]), 0,
                  sideBySide)

DispatchRemoveBook(sideBySide) ==
    /\ ~IsUndefined(state)
    /\ \E id \in KnownIds(state) : dispatch(removeBook(id), 0, sideBySide)

DispatchRemoveAuthor(sideBySide) ==
    /\ ~IsUndefined(state)
    /\ \E id \in KnownIds(state) : dispatch(removeAuthor(id), 0, sideBySide)

DispatchOther(sideBySide) ==
    /\ ~IsUndefined(state)
    /\ \E t \in OtherTypes : dispatch([type |-> t], 0, sideBySide)

\* the application: one store, created from rootReducer
Next ==
    \/ CreateStore(FALSE)
    \/ BookInputSubmit(FALSE)
    \/ AuthorInputSubmit(FALSE)
    \/ DispatchAddBook(FALSE)
    \/ DispatchAddAuthor(FALSE)
    \/ DispatchRemoveBook(FALSE)
    \/ DispatchRemoveAuthor(FALSE)
    \/ DispatchOther(FALSE)

Spec == Init /\ [][Next]_vars

NextGen ==
    \/ CreateStore(FALSE)
    \/ BookInputSubmit(FALSE)
    \/ AuthorInputSubmit(FALSE)
    \/ DispatchRemoveBook(FALSE)
    \/ DispatchRemoveAuthor(FALSE)
    \/ DispatchOther(FALSE)

\* only the forms add records: every id of a payload comes from uuid()
SpecGen == Init /\ [][NextGen]_vars

NextBooksOnly ==
    \/ CreateStore(FALSE)
    \/ BookInputSubmit(FALSE)
    \/ DispatchAddBook(FALSE)
    \/ DispatchRemoveBook(FALSE)
    \/ DispatchRemoveAuthor(FALSE)
    \/ DispatchOther(FALSE)

\* no authors/add is ever dispatched: every author comes from a books/add
SpecBooksOnly == Init /\ [][NextBooksOnly]_vars

NextBoth ==
    \/ CreateStore(TRUE)
    \/ BookInputSubmit(TRUE)
    \/ AuthorInputSubmit(TRUE)
    \/ DispatchAddBook(TRUE)
    \/ DispatchAddAuthor(TRUE)
    \/ DispatchRemoveBook(TRUE)
    \/ DispatchRemoveAuthor(TRUE)
    \/ DispatchOther(TRUE)

\* the application before and after the refactoring, side by side: the store
\* of the monolithic reducer is fed every action the store of rootReducer is
SpecBoth == Init /\ [][NextBoth]_vars

\* store.dispatch(action) on the store created from bookApp
appDispatch(action) ==
    /\ WithinBounds(bookApp(app, action))
    /\ app' = bookApp(app, action)
    /\ lastAction' = action
    /\ prev' = app
    /\ UNCHANGED <<state, mono, uuidCount>>

\* createStore(bookApp)
AppCreateStore ==
    /\ IsUndefined(app)
    /\ \E t \in InitTypes : appDispatch([type |-> t])

AppAddBook ==
    /\ ~IsUndefined(app)
    /\ \E title \in Titles, authorName \in Names, id \in AppIds :
         appDispatch([type |-> "ADD_BOOK",
                      book |-> [title |-> title, authorName |-> authorName,
                                id |-> id]])

AppRemoveBook ==
    /\ ~IsUndefined(app)
    /\ \E id \in AppIds : appDispatch([type |-> "REMOVE_BOOK", id |-> id])

AppAddAuthor ==
    /\ ~IsUndefined(app)
    /\ \E authorName \in Names, id \in AppIds :
         appDispatch([type |-> "ADD_AUTHOR",
                      author |-> [authorName |-> authorName, id |-> id]])

AppRemoveAuthor ==
    /\ ~IsUndefined(app)
    /\ \E id \in AppIds : appDispatch([type |-> "REMOVE_AUTHOR", id |-> id])

AppOther ==
    /\ ~IsUndefined(app)
    /\ appDispatch([type |-> "books/add"])

NextApp ==
    \/ AppCreateStore
    \/ AppAddBook
    \/ AppRemoveBook
    \/ AppAddAuthor
    \/ AppRemoveAuthor
    \/ AppOther

\* the application with the single reducer bookApp behind its store
SpecApp == Init /\ [][NextApp]_vars

TypeOK ==
    /\ uuidCount \in 0..MaxUuid
    /\ IsUndefined(state) \/ WithinBounds(state)

\* ---- vocabulary of the properties ----
Created == ~IsUndefined(state)
NoRecords == [authors |-> <<>>, books |-> <<>>]

AuthorNames(seq) == {seq[i].authorName : i \in DOMAIN seq}
Named(seq, name) == {i \in DOMAIN seq : seq[i].authorName = name}
IsPrefix(p, seq) == Len(p) <= Len(seq) /\ SubSeq(seq, 1, Len(p)) = p

\* ids an action dispatched now can carry: a known id, or the next uuid
PayloadIds == KnownIds(state) \cup {uuid(uuidCount)}
BookPayloads == [title : Titles, authorName : Names, id : PayloadIds]
AuthorPayloads == [authorName : Names, id : PayloadIds]
UnrelatedTypes == InitTypes \cup OtherTypes

\* C1: the root reducer called with an undefined state and an initialization
\* action returns { books: [], authors: [] }: the state of the store right
\* after its creation has both collections, and both are empty.
C1_InitialState ==
    (lastAction.type \in InitTypes) =>
        /\ DOMAIN state = {"authors", "books"}
        /\ state = NoRecords
        /\ \A t \in UnrelatedTypes :
             rootReducer(Undefined, [type |-> t], uuidCount) = NoRecords

C1_Witness ==
    /\ lastAction.type \in InitTypes
    /\ Created
    /\ uuidCount = 0

\* C2: in every reachable state of the store, an action whose type is none
\* of books/add, books/remove, authors/add, authors/remove makes the root
\* reducer return a state equal to the one it was given.
C2_UnrelatedNoOp ==
    Created =>
        /\ \A t \in UnrelatedTypes :
             rootReducer(state, [type |-> t], uuidCount) = state
        /\ (lastAction.type \in OtherTypes) => state = prev

C2_Witness ==
    /\ lastAction.type \in OtherTypes
    /\ prev.books # <<>>
    /\ prev.authors # <<>>
    /\ state = prev

\* C3 as stated: in every reachable state, for every book B, books/add of B
\* followed by books/remove of B.id gives back the books collection.
C3_RoundTripAnyBook ==
    Created =>
        \A B \in BookPayloads :
            booksReducer({booksReducer({state.books}, addBook(B))},
                         removeBook(B.id)) = state.books

\* C3 amended: the round trip gives back the books collection when no book
\* of the collection has the id of B.
C3_RoundTripFreshBook ==
    Created =>
        \A B \in BookPayloads :
            B.id \notin Ids(state.books) =>
                booksReducer({booksReducer({state.books}, addBook(B))},
                             removeBook(B.id)) = state.books

\* the book last appended to a non-empty collection was removed by its id
C3_Witness ==
    /\ lastAction.type = "books/remove"
    /\ state.books # <<>>
    /\ Len(prev.books) = Len(state.books) + 1
    /\ prev.books[Len(prev.books)].id = lastAction.payload
    /\ lastAction.payload \notin Ids(state.books)
    /\ SubSeq(prev.books, 1, Len(state.books)) = state.books

\* C4: when the authors collection already has a record with the authorName
\* of a books/add payload, authorsReducer returns the collection unchanged;
\* authors/add of a new name N followed by books/add with authorName N
\* leaves exactly one author named N.
C4_DuplicateNameSuppressed ==
    Created =>
        /\ \A B \in BookPayloads :
             B.authorName \in AuthorNames(state.authors) =>
                 authorsReducer({state.authors}, addBook(B), uuidCount)
                     = state.authors
        /\ \A A \in AuthorPayloads :
             A.authorName \notin AuthorNames(state.authors) =>
                 LET added == authorsReducer({state.authors}, addAuthor(A),
                                             uuidCount)
                 IN  \A title \in Titles, id \in PayloadIds :
                         LET B == [title |-> title, id |-> id,
                                   authorName |-> A.authorName]
                             after == authorsReducer({added}, addBook(B),
                                                     uuidCount)
                         IN  Cardinality(Named(after, A.authorName)) = 1
        /\ (lastAction.type = "books/add"
               /\ lastAction.payload.authorName \in AuthorNames(prev.authors))
             => state.authors = prev.authors

C4_Witness ==
    /\ lastAction.type = "books/add"
    /\ lastAction.payload.authorName \in AuthorNames(prev.authors)
    /\ state.authors = prev.authors
    /\ Cardinality(Named(state.authors, lastAction.payload.authorName)) = 1
    /\ Len(state.books) = Len(prev.books) + 1

\* C5: when no record of the authors collection has the authorName of a
\* books/add payload, authorsReducer returns the old collection with one
\* record appended: it has the payload's authorName and an id that uuid()
\* has just generated, which no author of the collection has.
C5_NewAuthorSynthesized ==
    Created =>
        /\ \A B \in BookPayloads, used \in {0, 1} :
             B.authorName \notin AuthorNames(state.authors) =>
                 LET old   == state.authors
                     after == authorsReducer({old}, addBook(B), uuidCount + used)
                     new   == after[Len(after)]
                 IN  /\ Len(after) = Len(old) + 1
                     /\ SubSeq(after, 1, Len(old)) = old
                     /\ DOMAIN new = {"authorName", "id"}
                     /\ new.authorName = B.authorName
                     /\ new.id \notin 1..(uuidCount + used)
                     /\ new.id \notin Ids(old)
        /\ (lastAction.type = "books/add"
               /\ lastAction.payload.authorName \notin AuthorNames(prev.authors))
             => /\ state.authors =
                     Append(prev.authors,
                            [authorName |-> lastAction.payload.authorName,
                             id |-> uuidCount])
                /\ uuidCount \notin Ids(prev.authors)

C5_Witness ==
    /\ lastAction.type = "books/add"
    /\ prev.authors # <<>>
    /\ lastAction.payload.authorName \notin AuthorNames(prev.authors)
    /\ Len(state.authors) = Len(prev.authors) + 1
    /\ state.authors[Len(state.authors)].authorName
           = lastAction.payload.authorName
    /\ state.authors[Len(state.authors)].id \notin Ids(prev.authors)

\* C6: in the root reducer an authors/add or authors/remove action leaves
\* the books collection as it was, and a books/add action keeps every record
\* of the authors collection in place, appending at most one at the end.
C6_FieldIsolation ==
    Created =>
        /\ \A A \in AuthorPayloads :
             rootReducer(state, addAuthor(A), uuidCount).books = state.books
        /\ \A id \in PayloadIds :
             rootReducer(state, removeAuthor(id), uuidCount).books = state.books
        /\ \A B \in BookPayloads :
             LET after == rootReducer(state, addBook(B), uuidCount).authors
             IN  /\ IsPrefix(state.authors, after)
                 /\ Len(after) <= Len(state.authors) + 1
        /\ (lastAction.type \in {"authors/add", "authors/remove"})
             => state.books = prev.books
        /\ (lastAction.type = "books/add")
             => /\ IsPrefix(prev.authors, state.authors)
                /\ Len(state.authors) <= Len(prev.authors) + 1

C6_Witness ==
    /\ lastAction.type = "authors/remove"
    /\ prev.books # <<>>
    /\ lastAction.payload \in Ids(prev.books)
    /\ lastAction.payload \in Ids(prev.authors)
    /\ state.books = prev.books
    /\ Len(state.authors) < Len(prev.authors)

\* C7 as stated: fed the same actions from the undefined state, the root
\* reducer and the single monolithic reducer hold equal states after every
\* action.
C7_SameAsMonolithic == state = mono

\* C7 amended: after every action the two hold equal books collections, and
\* from equal states they reach equal states on every action except a
\* books/add whose authorName no author has, on which authorsReducer alone
\* appends an author.
C7_SameUntilAuthorSynthesized ==
    [][/\ state'.books = mono'.books
       /\ (state = mono
             /\ ~authorsCallsUuid(Slice(state, "authors"), lastAction'))
           => state' = mono']_vars

\* a books/add for a known author left the two states equal
C7_Witness ==
    /\ lastAction.type = "books/add"
    /\ state = mono
    /\ state.books # <<>>
    /\ state.authors # <<>>

\* C8: when every added record comes from BookInput, AuthorInput or the
\* books/add case of authorsReducer, no two books share an id and no two
\* authors share an id.
C8_IdsUnique ==
    Created =>
        /\ \A i, j \in DOMAIN state.books :
             i # j => state.books[i].id # state.books[j].id
        /\ \A i, j \in DOMAIN state.authors :
             i # j => state.authors[i].id # state.authors[j].id

C8_Witness ==
    /\ Created
    /\ Len(state.books) >= 2
    /\ state.authors # <<>>
    /\ Cardinality(Ids(state.books)) = Len(state.books)

\* C9: on books/add booksReducer returns the old sequence with the payload
\* as a new last element, every earlier record in its place, also when the
\* collection already holds a record equal to the payload or with its id.
C9_BookAppended ==
    Created =>
        /\ \A B \in BookPayloads :
             LET old   == state.books
                 after == booksReducer({old}, addBook(B))
             IN  /\ Len(after) = Len(old) + 1
                 /\ after[Len(after)] = B
                 /\ \A i \in DOMAIN old : after[i] = old[i]
        /\ (lastAction.type = "books/add")
             => state.books = Append(prev.books, lastAction.payload)

\* a book equal to one of the collection was added once more
C9_Witness ==
    /\ lastAction.type = "books/add"
    /\ \E i \in DOMAIN prev.books : prev.books[i] = lastAction.payload
    /\ Len(state.books) = Len(prev.books) + 1
    /\ state.books[Len(state.books)] = lastAction.payload

\* seq without every record of the given id, the others in their order
RECURSIVE WithoutId(_, _)
WithoutId(seq, id) ==
    IF seq = <<>> THEN <<>>
    ELSE IF Head(seq).id = id THEN WithoutId(Tail(seq), id)
    ELSE <<Head(seq)>> \o WithoutId(Tail(seq), id)

\* C10 as stated: on books/remove booksReducer removes the first record with
\* the id and keeps every other record, also when several records have
\* the id.
C10_FirstMatchRemoved ==
    Created =>
        \A id \in PayloadIds :
            booksReducer({state.books}, removeBook(id))
                = RemoveFirst(state.books, id)

\* C10 amended: on books/remove booksReducer removes every record with the
\* id and keeps the other records in their order; when no record has the id
\* the sequence is returned unchanged.
C10_AllMatchesRemoved ==
    Created =>
        /\ \A id \in PayloadIds :
             LET after == booksReducer({state.books}, removeBook(id))
             IN  /\ after = WithoutId(state.books, id)
                 /\ id \notin Ids(state.books) => after = state.books
        /\ (lastAction.type = "books/remove")
             => state.books = WithoutId(prev.books, lastAction.payload)

\* two books with the same id were removed by one books/remove
C10_Witness ==
    /\ lastAction.type = "books/remove"
    /\ Len(prev.books) >= Len(state.books) + 2
    /\ lastAction.payload \notin Ids(state.books)

\* C11: on authors/add authorsReducer returns the old sequence with the
\* payload as a new last element, every earlier record in its place, also
\* when an author of the collection has the payload's authorName or id.
C11_AuthorAppended ==
    Created =>
        /\ \A A \in AuthorPayloads :
             LET old   == state.authors
                 after == authorsReducer({old}, addAuthor(A), uuidCount)
             IN  /\ Len(after) = Len(old) + 1
                 /\ after[Len(after)] = A
                 /\ \A i \in DOMAIN old : after[i] = old[i]
        /\ (lastAction.type = "authors/add")
             => state.authors = Append(prev.authors, lastAction.payload)

\* an author whose name and id the collection already has was added
C11_Witness ==
    /\ lastAction.type = "authors/add"
    /\ lastAction.payload.authorName \in AuthorNames(prev.authors)
    /\ lastAction.payload.id \in Ids(prev.authors)
    /\ Len(state.authors) = Len(prev.authors) + 1
    /\ state.authors[Len(state.authors)] = lastAction.payload

\* C12 as stated: on authors/remove authorsReducer removes the first record
\* with the id and keeps every other record in its order.
C12_FirstAuthorRemoved ==
    Created =>
        \A id \in PayloadIds :
            authorsReducer({state.authors}, removeAuthor(id), uuidCount)
                = RemoveFirst(state.authors, id)

\* C12 amended: on authors/remove authorsReducer removes every record with
\* the id and keeps the other records in their order; when no author has
\* the id the collection is unchanged.
C12_AllAuthorsRemoved ==
    Created =>
        /\ \A id \in PayloadIds :
             LET after == authorsReducer({state.authors}, removeAuthor(id),
                                         uuidCount)
             IN  /\ after = WithoutId(state.authors, id)
                 /\ id \notin Ids(state.authors) => after = state.authors
        /\ (lastAction.type = "authors/remove")
             => state.authors = WithoutId(prev.authors, lastAction.payload)

\* two authors with the same id were removed by one authors/remove
C12_Witness ==
    /\ lastAction.type = "authors/remove"
    /\ Len(prev.authors) >= Len(state.authors) + 2
    /\ lastAction.payload \notin Ids(state.authors)

\* number of uuid() calls made once rootReducer has run on (s, action) after
\* n earlier calls
CallsAfter(s, action, n) ==
    IF authorsCallsUuid(Slice(s, "authors"), action) THEN n + 1 ELSE n

\* the reducers run twice on the same state and action give equal results
SameTwice(action) ==
    LET n == uuidCount
        m == CallsAfter(state, action, n)
    IN  /\ rootReducer(state, action, n) = rootReducer(state, action, m)
        /\ authorsReducer({state.authors}, action, n)
             = authorsReducer({state.authors}, action, m)
        /\ booksReducer({state.books}, action)
             = booksReducer({state.books}, action)

\* C13: booksReducer, authorsReducer and the root reducer are pure: applied
\* twice to the same state and the same action they return equal results,
\* for every action type, books/add included.
C13_ReducersPure ==
    Created =>
        /\ \A B \in BookPayloads : SameTwice(addBook(B))
        /\ \A A \in AuthorPayloads : SameTwice(addAuthor(A))
        /\ \A id \in PayloadIds :
             SameTwice(removeBook(id)) /\ SameTwice(removeAuthor(id))
        /\ \A t \in UnrelatedTypes : SameTwice([type |-> t])

\* C14: in bookApp a REMOVE_BOOK or REMOVE_AUTHOR action whose id no record
\* of the targeted collection has changes nothing: that collection keeps its
\* records, length and order, and the other collection is unchanged.
C14_MissingIdNoOp ==
    ~IsUndefined(app) =>
        /\ \A id \in AppIds :
             id \notin Ids(app.books) =>
                 bookApp(app, [type |-> "REMOVE_BOOK", id |-> id]) = app
        /\ \A id \in AppIds :
             id \notin Ids(app.authors) =>
                 bookApp(app, [type |-> "REMOVE_AUTHOR", id |-> id]) = app
        /\ (lastAction.type = "REMOVE_BOOK"
               /\ lastAction.id \notin Ids(prev.books)) => app = prev
        /\ (lastAction.type = "REMOVE_AUTHOR"
               /\ lastAction.id \notin Ids(prev.authors)) => app = prev

\* other values a slice can have beside seq: empty, without its first record,
\* and the value the slice had one action earlier
AltSlices(seq, key) ==
    ({<<>>} \cup (IF seq = <<>> THEN {} ELSE {Tail(seq)})
            \cup (IF IsUndefined(prev) THEN {} ELSE {prev[key]})) \ {seq}

\* the new value of each slice is the same whatever the other slice holds
SliceIndependent(action) ==
    LET n == uuidCount
        r == rootReducer(state, action, n)
    IN  /\ \A b \in AltSlices(state.books, "books") :
             rootReducer([authors |-> state.authors, books |-> b],
                         action, n).authors = r.authors
        /\ \A a \in AltSlices(state.authors, "authors") :
             rootReducer([authors |-> a, books |-> state.books],
                         action, n).books = r.books

\* C15: for every action, and the same generated id, the root reducer gives
\* the same new authors collection to two states that agree on authors and
\* differ on books, and the same new books collection to two states that
\* agree on books and differ on authors.
C15_SliceIndependence ==
    Created =>
        /\ \A B \in BookPayloads : SliceIndependent(addBook(B))
        /\ \A A \in AuthorPayloads : SliceIndependent(addAuthor(A))
        /\ \A id \in PayloadIds :
             SliceIndependent(removeBook(id))
                 /\ SliceIndependent(removeAuthor(id))
        /\ \A t \in UnrelatedTypes : SliceIndependent([type |-> t])

\* the state and the one before it agree on authors and differ on books
C15_Witness ==
    /\ lastAction.type = "books/add"
    /\ ~IsUndefined(prev)
    /\ state.authors = prev.authors
    /\ state.authors # <<>>
    /\ state.books # prev.books
    /\ prev.books # <<>>

\* C16: when no authors/add action is ever dispatched, no two records of the
\* authors collection have the same authorName.
C16_AuthorNamesDistinct ==
    Created =>
        \A i, j \in DOMAIN state.authors :
            i # j => state.authors[i].authorName # state.authors[j].authorName

\* a books/add for a name one of two authors has left the authors as they were
C16_Witness ==
    /\ lastAction.type = "books/add"
    /\ Len(prev.authors) = 2
    /\ lastAction.payload.authorName \in AuthorNames(prev.authors)
    /\ state.authors = prev.authors
    /\ Cardinality(AuthorNames(state.authors)) = 2
====
